---- MODULE Spec2Model ----
(***************************************************************************)
(* Model of spatialdata_io/readers/xenium.py: the Xenium reader.           *)
(*                                                                         *)
(* Spec           one or more calls of xenium(), step by step              *)
(* SpecPolygons   one call of _get_polygons() on a boundary-vertex table   *)
(* SpecAligned    one run of _add_aligned_images() over a directory        *)
(* SpecAlignedImage  one call of xenium_aligned_image() on an image shape  *)
(* SpecSelection  one call of xenium_explorer_selection() on a csv export  *)
(***************************************************************************)
EXTENDS Integers, Sequences, FiniteSets

VARIABLES
    pc,                   \* position in the function being run
    err,                  \* the exception that ended the call
    warnings,             \* warnings emitted by the call, in order
    specs,                \* the specification record (json of experiment.xenium)
    version,              \* result of _parse_version_of_xenium_analyzer
    flags,                \* the boolean parameters of xenium()
    image_models_kwargs,  \* keys of the image_models_kwargs mapping
    images,               \* dict: element name -> image
    labels,               \* dict: element name -> labels
    polygons,             \* dict: element name -> shapes
    points,               \* dict: element name -> points
    table,                \* the region the table annotates ("" before it is read)
    circles,              \* TRUE once the circles element was built
    sdata,                \* the SpatialData object (None before it is built)
    logger_filters,       \* filter instances installed on tifffile.logger()
    tmpdirs,              \* temporary directories that exist on disk
    tmpdir,               \* the directory of the with statement of _get_labels (0: none)
    lpc,                  \* position inside _get_labels ("" outside of it)
    reads,                \* image files handed to imread so far in this call
    invoked,              \* extractors called so far in this call
    df,                   \* boundary-vertex table given to _get_polygons
    idx,                  \* identifier list given to _get_polygons (the table's cell ids)
    out,                  \* value returned by the function under study
    listing,              \* directory content seen by os.listdir or glob
    todo,                 \* ome_tif_files still to visit in _add_aligned_images
    csv,                  \* lines of the selection file
    pixel_size,           \* pixel_size of xenium_explorer_selection, a fraction
    image_shape           \* shape of the array imread returns to xenium_aligned_image

vars == <<pc, err, warnings, specs, version, flags, image_models_kwargs, images,
          labels, polygons, points, table, circles, sdata, logger_filters,
          tmpdirs, tmpdir, lpc, reads, invoked, df, idx, out,
          listing, todo, csv, pixel_size, image_shape>>

xvars == <<flags, image_models_kwargs, images, labels, polygons, points, table,
           circles, sdata, logger_filters, tmpdirs, tmpdir, lpc, reads, invoked>>
pvars == <<df, idx>>
avars == <<listing, todo>>
svars == <<csv, pixel_size>>

----------------------------------------------------------------------------
(* Bounds of the model.                                                    *)

MaxId == 2           \* cell identifiers are 1..MaxId
MaxBoundaries == 2   \* boundaries (vertex rings) in a boundary table
MaxFilters == 2      \* xenium() is called while tifffile's logger has fewer filters
MaxChannels == 2     \* channels of a legacy morphology file are 1..MaxChannels
MaxSize == 4         \* sizes of an image dimension are 1..MaxSize
MaxRows == 4         \* coordinate rows of a selection export

----------------------------------------------------------------------------
(* Sequences.                                                              *)

Range(s) == {s[i] : i \in 1..Len(s)}

SeqsUpTo(S, n) == UNION {[1..k -> S] : k \in 0..n}

RECURSIVE SortedSeq(_)
\* the elements of a finite set of integers in increasing order
SortedSeq(S) ==
    IF S = {} THEN <<>>
    ELSE LET m == CHOOSE x \in S : \A y \in S : x <= y
         IN  <<m>> \o SortedSeq(S \ {m})

RECURSIVE SelectIdx(_, _, _)
\* indices i >= from of s with s[i] \in S, in order
SelectIdx(s, S, from) ==
    IF from > Len(s) THEN <<>>
    ELSE (IF s[from] \in S THEN <<from>> ELSE <<>>) \o SelectIdx(s, S, from + 1)

\* a dict is a function on its keys
EmptyDict == <<>>

Put(d, k, v) == [x \in DOMAIN d \cup {k} |-> IF x = k THEN v ELSE d[x]]

----------------------------------------------------------------------------
(* Version strings and _parse_version_of_xenium_analyzer.                  *)
(* A string is a sequence of one-character strings.                        *)

None == [kind |-> "None"]

Digits == {"0", "1", "2", "3", "4", "5", "6", "7", "8", "9"}

DigitValue(c) ==
    CASE c = "0" -> 0 [] c = "1" -> 1 [] c = "2" -> 2 [] c = "3" -> 3
      [] c = "4" -> 4 [] c = "5" -> 5 [] c = "6" -> 6 [] c = "7" -> 7
      [] c = "8" -> 8 [] c = "9" -> 9

XeniumPrefix == <<"x", "e", "n", "i", "u", "m", "-">>

\* xenium-1.9.0
V_1_9_0 == XeniumPrefix \o <<"1", ".", "9", ".", "0">>
\* xenium-1.10.2.4   (a fourth component without "-REV": not part of the match)
V_1_10_2 == XeniumPrefix \o <<"1", ".", "1", "0", ".", "2", ".", "4">>
\* xenium-2.0.0
V_2_0_0 == XeniumPrefix \o <<"2", ".", "0", ".", "0">>
\* xenium-2.0.0.6-35-ga7   (the example of the source)
V_2_0_0_6 == XeniumPrefix \o <<"2", ".", "0", ".", "0", ".", "6", "-", "3", "5", "-", "g", "a", "7">>
\* xenium-2.0   (two components only: no match)
V_short == XeniumPrefix \o <<"2", ".", "0">>
\* dev-3.1.0    (wrong prefix: no match)
V_dev == <<"d", "e", "v", "-", "3", ".", "1", ".", "0">>

VersionStrings == {V_1_9_0, V_1_10_2, V_2_0_0, V_2_0_0_6, V_short, V_dev}

HasPrefix(s, p) == Len(s) >= Len(p) /\ SubSeq(s, 1, Len(p)) = p

RECURSIVE DigitsEnd(_, _)
\* \d+ from position i, greedy: the position after the last digit (i if none)
DigitsEnd(s, i) ==
    IF i <= Len(s) /\ s[i] \in Digits THEN DigitsEnd(s, i + 1) ELSE i

RECURSIVE Number(_, _, _)
\* the decimal number written in s[i..j-1]
Number(s, i, j) ==
    IF j <= i THEN 0 ELSE 10 * Number(s, i, j - 1) + DigitValue(s[j - 1])

CharAt(s, i, c) == i <= Len(s) /\ s[i] = c

\* re.search(r"^xenium-(\d+\.\d+\.\d+(\.\d+-\d+)?)", string): None when there
\* is no match, else the numbers of group 1: release components and, when
\* the optional group matched, the number after "-"
RegexSearch(s) ==
    IF ~HasPrefix(s, XeniumPrefix) THEN None
    ELSE
    LET a0 == Len(XeniumPrefix) + 1
        a1 == DigitsEnd(s, a0)
        b0 == a1 + 1
        b1 == DigitsEnd(s, b0)
        c0 == b1 + 1
        c1 == DigitsEnd(s, c0)
        d0 == c1 + 1
        d1 == DigitsEnd(s, d0)
        e0 == d1 + 1
        e1 == DigitsEnd(s, e0)
    IN  IF ~(a1 > a0 /\ CharAt(s, a1, ".") /\ b1 > b0 /\ CharAt(s, b1, ".") /\ c1 > c0)
        THEN None
        ELSE IF CharAt(s, c1, ".") /\ d1 > d0 /\ CharAt(s, d1, "-") /\ e1 > e0
        THEN [kind |-> "Match",
              release |-> <<Number(s, a0, a1), Number(s, b0, b1), Number(s, c0, c1),
                            Number(s, d0, d1)>>,
              post |-> Number(s, e0, e1)]
        ELSE [kind |-> "Match",
              release |-> <<Number(s, a0, a1), Number(s, b0, b1), Number(s, c0, c1)>>,
              post |-> -1]

\* packaging.version.parse of group 1: N.N.N or N.N.N.N-N, the latter a
\* post-release (PEP 440 reads "-N" as ".postN"); never InvalidVersion
PackagingParse(m) == [kind |-> "Version", release |-> m.release, post |-> m.post]

WarningVersion == "Could not parse the version of the Xenium Analyzer"

_parse_version_of_xenium_analyzer(sp) ==
    LET result == RegexSearch(sp.analysis_sw_version)
    IN  IF result = None THEN None ELSE PackagingParse(result)

\* the warning of _parse_version_of_xenium_analyzer(specs, hide_warning)
ParseWarnings(sp, hide_warning) ==
    IF RegexSearch(sp.analysis_sw_version) = None /\ ~hide_warning
    THEN <<WarningVersion>> ELSE <<>>

RECURSIVE StripTrailingZeros(_)
StripTrailingZeros(r) ==
    IF Len(r) > 0 /\ r[Len(r)] = 0 THEN StripTrailingZeros(SubSeq(r, 1, Len(r) - 1))
    ELSE r

RECURSIVE TupleLess(_, _)
\* Python's < on tuples of integers
TupleLess(a, b) ==
    IF Len(b) = 0 THEN FALSE
    ELSE IF Len(a) = 0 THEN TRUE
    ELSE IF a[1] # b[1] THEN a[1] < b[1]
    ELSE TupleLess(Tail(a), Tail(b))

\* packaging.version.Version.__lt__: release (trailing zeros dropped), then
\* the post-release number (a version without one sorts first)
VersionLess(v, w) ==
    LET rv == StripTrailingZeros(v.release)
        rw == StripTrailingZeros(w.release)
    IN  IF rv # rw THEN TupleLess(rv, rw) ELSE v.post < w.post

\* packaging.version.parse("2.0.0")
Version200 == [kind |-> "Version", release |-> <<2, 0, 0>>, post |-> -1]

----------------------------------------------------------------------------
(* Boundary-vertex tables and _get_polygons.                               *)
(* A cell identifier is [enc, v]: how the file stores it (utf-8 bytes or   *)
(* text) and its value; a table row is [cell_id, vertex].                  *)

CellIds == 1..MaxId

Id(e, v) == [enc |-> e, v |-> v]

\* the rows of boundary number j, the ring of cell c: three vertices and the
\* closing vertex, which repeats the first
Ring(e, c, j) ==
    [k \in 1..4 |-> [cell_id |-> Id(e, c), vertex |-> 10 * j + (IF k = 4 THEN 1 ELSE k)]]

RECURSIVE Rows(_, _, _)
\* the table holding one ring for each boundary of b, from boundary j on
Rows(e, b, j) ==
    IF j > Len(b) THEN <<>> ELSE Ring(e, b[j], j) \o Rows(e, b, j + 1)

BoundaryTables ==
    {Rows(e, b, 1) : e \in {"bytes", "str"}, b \in SeqsUpTo(CellIds, MaxBoundaries)}

\* the cell identifier of each boundary (maximal run of rows of one ring)
BoundaryIds(d) == [j \in 1..(Len(d) \div 4) |-> d[4 * j].cell_id.v]

\* some cell identifier is on more than one boundary of the table
HasDuplicateIds(d) ==
    \E i, j \in 1..(Len(d) \div 4) : i # j /\ BoundaryIds(d)[i] = BoundaryIds(d)[j]

\* identifier lists of the table's obs: distinct identifiers in any order
IdLists ==
    {s \in SeqsUpTo(CellIds, MaxId) : \A i, j \in 1..Len(s) : i # j => s[i] # s[j]}

Series(s) == [kind |-> "Series", values |-> [i \in 1..Len(s) |-> Id("str", s[i])]]

\* _decode_cell_id_column: the first element decides for the whole column;
\* .iloc[0] of an empty column raises IndexError
_decode_cell_id_column(col) ==
    IF Len(col) = 0 THEN [status |-> "IndexError", values |-> <<>>]
    ELSE IF col[1].enc = "bytes"
    THEN [status |-> "ok", values |-> [i \in 1..Len(col) |-> Id("str", col[i].v)]]
    ELSE [status |-> "ok", values |-> col]

RECURSIVE FirstSeen(_, _)
\* the distinct values of s in order of first appearance
FirstSeen(s, seen) ==
    IF Len(s) = 0 THEN <<>>
    ELSE IF s[1] \in seen THEN FirstSeen(Tail(s), seen)
    ELSE <<s[1]>> \o FirstSeen(Tail(s), seen \cup {s[1]})

\* GroupKeys as groupby(sort=False) would give them: in order of appearance
GroupKeysUnsorted(d) == FirstSeen([i \in 1..Len(d) |-> d[i].cell_id], {})

\* df.groupby(cell_id): the distinct keys in sorted order (pandas sorts group
\* keys), each with the positions of its rows
GroupKeys(d) ==
    LET e == IF Len(d) = 0 THEN "str" ELSE d[1].cell_id.enc
        ks == SortedSeq({d[i].cell_id.v : i \in 1..Len(d)})
    IN  [i \in 1..Len(ks) |-> Id(e, ks[i])]

GroupRows(d, key) == SelectIdx([i \in 1..Len(d) |-> d[i].cell_id], {key}, 1)

\* _poly: Polygon(arr[:-1]) of the rows of one group
Poly(d, key) ==
    LET r == GroupRows(d, key)
    IN  [i \in 1..(Len(r) - 1) |-> d[r[i]].vertex]

WarningNonUnique == "Found non-unique polygon indices"

\* np.unique(geo_df.index).size == len(geo_df)
IndexIsUnique(index) == Cardinality(Range(index)) = Len(index)

Raised(e) == [status |-> e, index |-> <<>>, geometry |-> <<>>, warnings |-> <<>>]

\* the legacy branch, lines 283-287; at line 285 geo_df still has its
\* default index 0..n-1
PolygonsLegacy(index, geometry, ix) ==
    IF ix = None THEN Raised("AssertionError")
    ELSE IF Len(ix.values) # Len(geometry) THEN Raised("AssertionError")
    ELSE IF ~IndexIsUnique([i \in 1..Len(geometry) |-> i - 1]) THEN Raised("AssertionError")
    ELSE IF index # ix.values THEN Raised("AssertionError")
    ELSE [status |-> "ok", index |-> ix.values, geometry |-> geometry, warnings |-> <<>>]

\* the modern branch, lines 289-295
PolygonsModern(index, geometry) ==
    [status |-> "ok", index |-> index, geometry |-> geometry,
     warnings |-> IF ~IndexIsUnique(index) THEN <<WarningNonUnique>> ELSE <<>>]

\* version is not None and version < packaging.version.parse("2.0.0")
IsLegacy(v) == v # None /\ VersionLess(v, Version200)

_get_polygons(d, sp, ix) ==
    LET keys == GroupKeys(d)
        dec == _decode_cell_id_column(keys)
        geometry == [i \in 1..Len(keys) |-> Poly(d, keys[i])]
        v == _parse_version_of_xenium_analyzer(sp)
    IN  IF dec.status # "ok" THEN Raised(dec.status)
        ELSE IF IsLegacy(v) THEN PolygonsLegacy(dec.values, geometry, ix)
        ELSE PolygonsModern(dec.values, geometry)

----------------------------------------------------------------------------
(* Aligned images: xenium_aligned_image and _add_aligned_images.           *)
(* A file name is [prefix, role, ext], read prefix + role + ext.           *)

ALIGNED_HE_IMAGE_SUFFIX == [role |-> "he_image", ext |-> ".ome.tif"]
ALIGNED_IF_IMAGE_SUFFIX == [role |-> "if_image", ext |-> ".ome.tif"]
ALIGNMENT_FILE_SUFFIX_TO_REMOVE == ".ome.tif"
ALIGNMENT_FILE_SUFFIX_TO_ADD == "_alignment.csv"

File(p, r, e) == [prefix |-> p, role |-> r, ext |-> e]

\* the files a dataset directory may hold besides the fixed ones
AlignedDirFiles ==
    {File("a_", "he_image", ".ome.tif"), File("a_", "if_image", ".ome.tif"),
     File("a_", "morphology", ".ome.tif"),
     File("a_", "he_image", "_alignment.csv"), File("a_", "if_image", "_alignment.csv"),
     File("b_", "he_image", "_alignment.csv")}

\* path.glob("*.ome.tif"), path.glob("*.csv")
GlobOmeTif(dir) == {f \in dir : f.ext = ".ome.tif"}
GlobCsv(dir) == {f \in dir : f.ext \in {"_alignment.csv", ".csv"}}

\* the orders in which glob may list a set of files
Orders(S) ==
    {s \in [1..Cardinality(S) -> S] : \A i, j \in 1..Cardinality(S) : i # j => s[i] # s[j]}

EndsWith(f, suffix) == f.role = suffix.role /\ f.ext = suffix.ext

\* lines 399-403: the element name of a file, None when it is no aligned image
ElementName(f) ==
    IF EndsWith(f, ALIGNED_HE_IMAGE_SUFFIX) THEN ALIGNED_HE_IMAGE_SUFFIX.role
    ELSE IF EndsWith(f, ALIGNED_IF_IMAGE_SUFFIX) THEN ALIGNED_IF_IMAGE_SUFFIX.role
    ELSE "None"

\* file.name.replace(".ome.tif", "_alignment.csv")
ExpectedFilename(f) ==
    IF f.ext = ALIGNMENT_FILE_SUFFIX_TO_REMOVE
    THEN File(f.prefix, f.role, ALIGNMENT_FILE_SUFFIX_TO_ADD) ELSE f

\* [f for f in csv_files if f.name == expected_filename]
AlignmentFiles(csv_files, f) == {c \in csv_files : c = ExpectedFilename(f)}

\* shapes imread may return: 2, 3 or 4 dimensions of sizes 1..MaxSize
Ranks == 2..4

Shapes == UNION {[1..k -> 1..MaxSize] : k \in Ranks}

\* da.concatenate([image, da.zeros_like(image[0:1])], axis=0)
AppendZeroChannel(shape) == [shape EXCEPT ![1] = @ + 1]

\* NormalizeShape without the assertion on the last size of a 4-dimensional
\* array
NormalizeShapeNoLastCheck(shape) ==
    IF Len(shape) = 4
    THEN IF shape[1] # 1
         THEN [status |-> "AssertionError", shape |-> <<>>, dims |-> <<>>, zero |-> FALSE]
         ELSE [status |-> "ok", shape |-> Tail(shape), dims |-> <<"y", "x", "c">>,
               zero |-> FALSE]
    ELSE IF Len(shape) # 3 \/ shape[1] \notin {3, 4}
         THEN [status |-> "AssertionError", shape |-> <<>>, dims |-> <<>>, zero |-> FALSE]
         ELSE IF shape[1] = 4
              THEN [status |-> "ok", shape |-> AppendZeroChannel(shape),
                    dims |-> <<"c", "y", "x">>, zero |-> TRUE]
              ELSE [status |-> "ok", shape |-> shape, dims |-> <<"c", "y", "x">>,
                    zero |-> FALSE]

\* lines 454-466: the shape and dims handed to Image2DModel.parse, or the
\* assertion that fails
NormalizeShape(shape) ==
    IF Len(shape) = 4
    THEN IF shape[1] # 1 \/ shape[4] # 3
         THEN [status |-> "AssertionError", shape |-> <<>>, dims |-> <<>>, zero |-> FALSE]
         ELSE [status |-> "ok", shape |-> Tail(shape), dims |-> <<"y", "x", "c">>,
               zero |-> FALSE]
    ELSE IF Len(shape) # 3 \/ shape[1] \notin {3, 4}
         THEN [status |-> "AssertionError", shape |-> <<>>, dims |-> <<>>, zero |-> FALSE]
         ELSE IF shape[1] = 4
              THEN [status |-> "ok", shape |-> AppendZeroChannel(shape),
                    dims |-> <<"c", "y", "x">>, zero |-> TRUE]
              ELSE [status |-> "ok", shape |-> shape, dims |-> <<"c", "y", "x">>,
                    zero |-> FALSE]

\* lines 468-474
Transformation(alignment_file) == IF alignment_file = None THEN "Identity" ELSE "Affine"

\* xenium_aligned_image, given the shape imread returned
xenium_aligned_image(shape, alignment_file) ==
    LET n == NormalizeShape(shape)
    IN  IF n.status # "ok" THEN [status |-> n.status]
        ELSE [status |-> "ok", shape |-> n.shape, dims |-> n.dims, zero |-> n.zero,
              transformation |-> Transformation(alignment_file)]

\* the shapes of the aligned images of a dataset directory: as Shapes, the
\* sizes between the first and the last being MaxSize
DatasetShapes == {sh \in Shapes : \A i \in 2..(Len(sh) - 1) : sh[i] = MaxSize}

\* every result of xenium_aligned_image for an image of the directory,
\* without and with an alignment file
ImagesWithIdentity == {xenium_aligned_image(sh, None) : sh \in DatasetShapes}

ImagesWithAffine ==
    {xenium_aligned_image(sh, File("a_", "he_image", "_alignment.csv")) : sh \in DatasetShapes}

\* lines 409-411: the alignment file of an aligned image, or the assertion
AlignmentFileOf(file, csv_files) ==
    LET alignment_files == AlignmentFiles(csv_files, file)
    IN  IF Cardinality(alignment_files) > 1
        THEN [status |-> "AssertionError: more than one alignment file",
              alignment_file |-> None]
        ELSE [status |-> "ok",
              alignment_file |-> IF alignment_files = {} THEN None
                                 ELSE CHOOSE f \in alignment_files : TRUE]

\* line 414: the results xenium_aligned_image may have for the file
ImagesRead(alignment_file) ==
    IF alignment_file = None THEN ImagesWithIdentity ELSE ImagesWithAffine

\* lines 405-415: the body of the loop for a file that is an aligned image,
\* given the result of xenium_aligned_image (not used when the assertion
\* on the alignment files fails)
AlignedIter(file, csv_files, imgs, image) ==
    LET a == AlignmentFileOf(file, csv_files)
    IN  IF a.status # "ok" THEN [status |-> a.status, images |-> imgs, read |-> FALSE]
        ELSE IF image.status # "ok"
        THEN [status |-> image.status, images |-> imgs, read |-> TRUE]
        ELSE [status |-> "ok", images |-> Put(imgs, ElementName(file), image), read |-> TRUE]

RECURSIVE AlignedLoop(_, _, _)
\* lines 398-416: every result the loop may end with from ome_tif_files = files
AlignedLoop(files, csv_files, imgs) ==
    IF files = <<>> THEN {[status |-> "ok", images |-> imgs]}
    ELSE IF ElementName(Head(files)) = "None" THEN AlignedLoop(Tail(files), csv_files, imgs)
    ELSE UNION {LET r == AlignedIter(Head(files), csv_files, imgs, image)
                IN  IF r.status = "ok" THEN AlignedLoop(Tail(files), csv_files, r.images)
                    ELSE {[status |-> r.status, images |-> EmptyDict]}
                : image \in ImagesRead(AlignmentFileOf(Head(files), csv_files).alignment_file)}

\* _add_aligned_images on a directory: every result it may have
_add_aligned_images(dir) ==
    UNION {AlignedLoop(files, GlobCsv(dir), EmptyDict) : files \in Orders(GlobOmeTif(dir))}

----------------------------------------------------------------------------
(* xenium_explorer_selection.                                              *)
(* A line of the csv file is a text line [text] or a coordinate row [x, y];*)
(* pixel_size is the fraction num/den, a scaled coordinate the fraction    *)
(* n/d.                                                                    *)

TextLine(t) == [kind |-> "text", text |-> t]
Row(x, y) == [kind |-> "row", x |-> x, y |-> y]

Coords == {0, 10}
CoordRows == {Row(x, y) : x \in Coords, y \in Coords}

\* the first lines of an export: two comment lines, then the column names
\* (as Xenium Explorer writes them) or nothing
Headers ==
    {<<TextLine("#Selection name"), TextLine("#Area")>>,
     <<TextLine("#Selection name"), TextLine("#Area"), TextLine("X,Y")>>}

SelectionFiles == {h \o r : h \in Headers, r \in SeqsUpTo(CoordRows, MaxRows)}

\* 0.5, 1 and the default 0.2125
PixelSizes == {[num |-> 1, den |-> 2], [num |-> 1, den |-> 1], [num |-> 17, den |-> 80]}

Drop(s, n) == IF Len(s) <= n THEN <<>> ELSE SubSeq(s, n + 1, Len(s))

\* pd.read_csv(path, skiprows=n, header=None).values
ReadCsvNoHeader(lines, skiprows) ==
    LET rest == Drop(lines, skiprows)
    IN  IF rest = <<>> THEN [status |-> "EmptyDataError", values |-> <<>>]
        ELSE [status |-> "ok", values |-> rest]

\* pd.read_csv(path, skiprows=n).values: the first line that is not skipped
\* gives the column names, the lines after it are the values
ReadCsv(lines, skiprows) ==
    LET rest == Drop(lines, skiprows)
    IN  IF rest = <<>> THEN [status |-> "EmptyDataError", values |-> <<>>]
        ELSE [status |-> "ok", values |-> Tail(rest)]

\* values / pixel_size, element by element
Divide(values, p) ==
    [i \in 1..Len(values) |->
        [x |-> [n |-> values[i].x * p.den, d |-> p.num],
         y |-> [n |-> values[i].y * p.den, d |-> p.num]]]

\* shapely.Polygon(coordinates): a ring needs three points, none gives the
\* empty polygon
Polygon(coordinates) ==
    IF Len(coordinates) \in {1, 2} THEN [status |-> "ValueError", vertices |-> <<>>]
    ELSE [status |-> "ok", vertices |-> coordinates]

xenium_explorer_selection(lines, p) ==
    LET d == ReadCsv(lines, 2)
    IN  IF d.status # "ok" THEN [status |-> d.status, vertices |-> <<>>]
        ELSE IF \E i \in 1..Len(d.values) : d.values[i].kind # "row"
        THEN [status |-> "TypeError", vertices |-> <<>>]
        ELSE Polygon(Divide(d.values, p))

----------------------------------------------------------------------------
(* xenium(): the helpers of its steps.                                     *)

FlagNames ==
    {"cells_as_circles", "cell_boundaries", "nucleus_boundaries", "cell_labels",
     "nucleus_labels", "transcripts", "morphology_mip", "morphology_focus"}

\* the versions of the datasets xenium() is run on: legacy, modern, unparsable
XeniumVersionStrings == {V_1_9_0, V_2_0_0_6, V_dev}

\* the cell ids of the metadata table: in sorted order, or in reverse order
ObsIdLists ==
    LET sorted == SortedSeq(CellIds)
    IN  {sorted, [i \in 1..Len(sorted) |-> sorted[Len(sorted) + 1 - i]]}

\* line 137
Region(cells_as_circles) == IF cells_as_circles THEN "cell_circles" ELSE "cell_boundaries"

\* tempfile.TemporaryDirectory().__exit__: the directory is removed, whether
\* the body of the with statement raised (exc) or not
TemporaryDirectoryExitOnSuccess(dirs, d, exc) == IF exc THEN dirs ELSE dirs \ {d}

TemporaryDirectoryExit(dirs, d, exc) == dirs \ {d}

\* the name mkdtemp gives the new directory: one that does not exist
NewTmpdir(dirs) == CHOOSE n \in 1..(Cardinality(dirs) + 1) : n \notin dirs

\* mask_index of the two calls of _get_labels
MaskIndex(name) == IF name = "nucleus_labels" THEN 0 ELSE 1

\* every status _get_polygons may end with for a version string and an
\* identifier list, over the boundary tables
PolygonStatuses ==
    {<<v, ids, _get_polygons(d, [analysis_sw_version |-> v], Series(ids)).status>> :
        v \in XeniumVersionStrings, ids \in ObsIdLists, d \in BoundaryTables}

Data(n) == [i \in 1..n |-> "data"]

\* an image element: its dims and its channels, each "data" or "zero"
ImageElement(dims, channels) == [dims |-> dims, channels |-> channels]

\* _get_images for a file of which imread returns n channels: line 383
\* appends the zero channel
GetImagesNoZeroChannel(n) == ImageElement(<<"c", "y", "x">>, Data(n))

GetImagesZeroForFourOnly(n) ==
    ImageElement(<<"c", "y", "x">>, IF n = 4 THEN Data(n) \o <<"zero">> ELSE Data(n))

_get_images(n) == ImageElement(<<"c", "y", "x">>, Data(n) \o <<"zero">>)

\* XeniumKeys.MORPHOLOGY_FOCUS_CHANNEL_IMAGE.format(i) for i in range(4)
FocusChannelFiles ==
    {"morphology_focus_0000.ome.tif", "morphology_focus_0001.ome.tif",
     "morphology_focus_0002.ome.tif", "morphology_focus_0003.ome.tif"}

\* what the focus directory may hold
FocusDirEntries == FocusChannelFiles \cup {"morphology_focus_0004.ome.tif", "notes.txt"}

OmeTifNames == FocusChannelFiles \cup {"morphology_focus_0004.ome.tif"}

\* line 207: {f for f in os.listdir(dir) if f.endswith(".ome.tif")}
FocusFiles(entries) == {f \in entries : f \in OmeTifNames}

\* lines 210-216
channel_names ==
    <<"MORPHOLOGY_FOCUS_CHANNEL_0", "MORPHOLOGY_FOCUS_CHANNEL_1",
      "MORPHOLOGY_FOCUS_CHANNEL_2", "MORPHOLOGY_FOCUS_CHANNEL_3", "dummy">>

\* line 238: XeniumKeys.MORPHOLOGY_FOCUS_CHANNEL_IMAGE.format(0)
FocusFile == "morphology_focus_0000.ome.tif"

\* imread of the first channel file reads the series of the 4 channel files
FocusChannelsRead == 4

\* a new instance of IgnoreSpecificMessage: an object none of the installed
\* filters is equal to
NewFilter(filters) == Len(filters) + 1

\* logging.Filterer.addFilter, removeFilter
AddFilter(filters, f) == IF f \in Range(filters) THEN filters ELSE Append(filters, f)

RemoveFilter(filters, f) == SelectSeq(filters, LAMBDA g : g # f)

\* what imread was called for: the element, the file, and the number of
\* channels of the array it returned (0: it raised)
ImageRead(element, file, n) == [element |-> element, file |-> file, channels |-> n]

\* lines 245-247: the shapes of the scene graph
ShapesWithCircles(polys, cells_as_circles, region) == Put(polys, region, "circles")

ShapesOf(polys, cells_as_circles, region) ==
    IF cells_as_circles THEN Put(polys, region, "circles") ELSE polys

\* the images of the aligned-image results, as elements
AlignedElements(imgs) ==
    [k \in DOMAIN imgs |->
        ImageElement(imgs[k].dims,
                     IF imgs[k].zero THEN Data(4) \o <<"zero">> ELSE Data(3))
         ]

\* every result _add_aligned_images may have, over the directories
AddAlignedResults ==
    {[status |-> r.status, images |-> AlignedElements(r.images)] :
        r \in UNION {_add_aligned_images(dir) : dir \in SUBSET AlignedDirFiles}}

\* lines 252-253
Merge(d, e) == [k \in DOMAIN d \cup DOMAIN e |-> IF k \in DOMAIN e THEN e[k] ELSE d[k]]

----------------------------------------------------------------------------
(* The variables a specification does not use stay as they are here.       *)

Idle ==
    /\ flags = EmptyDict /\ image_models_kwargs = {} /\ images = EmptyDict
    /\ labels = EmptyDict /\ polygons = EmptyDict /\ points = EmptyDict
    /\ table = "" /\ circles = FALSE /\ sdata = None
    /\ logger_filters = <<>> /\ tmpdirs = {} /\ tmpdir = 0 /\ lpc = ""
    /\ reads = <<>> /\ invoked = {}

----------------------------------------------------------------------------
(* SpecPolygons: one call of _get_polygons.                                *)

InitPolygons ==
    /\ pc = "call" /\ err = "" /\ warnings = <<>> /\ version = None /\ out = None
    /\ specs \in [analysis_sw_version : VersionStrings]
    /\ df \in BoundaryTables
    /\ idx \in {None} \cup {Series(s) : s \in IdLists}
    /\ Idle
    /\ listing = {} /\ todo = <<>> /\ csv = <<>> /\ pixel_size = None /\ image_shape = <<>>

CallGetPolygons ==
    /\ pc = "call"
    /\ LET r == _get_polygons(df, specs, idx)
       IN  /\ version' = _parse_version_of_xenium_analyzer(specs)
           /\ warnings' = r.warnings
           /\ IF r.status = "ok"
              THEN pc' = "returned" /\ err' = "" /\ out' = r
              ELSE pc' = "raised" /\ err' = r.status /\ out' = None
    /\ UNCHANGED <<specs, xvars, pvars, avars, svars, image_shape>>

NextPolygons == CallGetPolygons

SpecPolygons == InitPolygons /\ [][NextPolygons]_vars

----------------------------------------------------------------------------
(* Spec: calls of xenium() in one process, one action for each step.       *)

\* in Spec err is [type, at]: the exception and the step that raised it
NoError == [type |-> "", at |-> ""]

Init ==
    /\ pc = "idle" /\ err = NoError /\ warnings = <<>> /\ version = None /\ out = None
    /\ specs = None /\ df = <<>> /\ idx = None
    /\ Idle
    /\ listing = {} /\ todo = <<>> /\ csv = <<>> /\ pixel_size = None
    /\ image_shape = <<>>

\* what an action of xenium() leaves alone besides the variables it names
Others == <<df, out, todo, svars, image_shape>>

\* an exception of type e leaves xenium() from the step it is at
Raise(e) == pc' = "error" /\ err' = [type |-> e, at |-> pc]

\* lines 51-129: the call, with its flags and the caller's image_models_kwargs
XeniumCall ==
    /\ pc = "idle"
    /\ Len(logger_filters) < MaxFilters
    /\ flags' \in [FlagNames -> BOOLEAN]
    /\ \E user \in SUBSET {"c_coords"} :
          image_models_kwargs' = user \cup {"chunks", "scale_factors"}
    /\ pc' = "load_specs"
    /\ UNCHANGED <<err, warnings, specs, version, images, labels, polygons, points,
                   table, circles, sdata, logger_filters, tmpdirs, tmpdir, lpc, reads,
                   invoked, idx, listing, Others>>

\* the call has returned or raised and the caller goes on: the locals of the
\* call are gone, what it did to the process (the logger, the disk) stays
XeniumExit ==
    /\ pc \in {"done", "error"}
    /\ pc' = "idle" /\ err' = NoError /\ warnings' = <<>>
    /\ flags' = EmptyDict /\ image_models_kwargs' = {}
    /\ specs' = None /\ version' = None /\ idx' = None
    /\ images' = EmptyDict /\ labels' = EmptyDict /\ polygons' = EmptyDict
    /\ points' = EmptyDict /\ table' = "" /\ circles' = FALSE /\ sdata' = None
    /\ tmpdir' = 0 /\ lpc' = "" /\ reads' = <<>> /\ invoked' = {} /\ listing' = {}
    /\ UNCHANGED <<logger_filters, tmpdirs, Others>>

\* lines 131-135
LoadSpecs ==
    /\ pc = "load_specs"
    /\ specs' \in [analysis_sw_version : XeniumVersionStrings]
    /\ version' = _parse_version_of_xenium_analyzer(specs')
    /\ warnings' = warnings \o ParseWarnings(specs', FALSE)
    /\ pc' = "tables"
    /\ UNCHANGED <<err, flags, image_models_kwargs, images, labels, polygons, points,
                   table, circles, sdata, logger_filters, tmpdirs, tmpdir, lpc, reads,
                   invoked, idx, listing, Others>>

\* lines 137-145: _get_tables_and_circles; its assert_array_equal fails when
\* the metadata and the matrix disagree on the cell ids
GetTablesAndCircles ==
    /\ pc = "tables"
    /\ specs' = [analysis_sw_version |-> specs.analysis_sw_version,
                 region |-> Region(flags["cells_as_circles"])]
    /\ invoked' = invoked \cup {"_get_tables_and_circles"}
    /\ \E equal \in BOOLEAN, ids \in ObsIdLists :
          IF equal
          THEN /\ table' = specs'.region
               /\ idx' = Series(ids)
               /\ circles' = flags["cells_as_circles"]
               /\ pc' = "nucleus_labels"
               /\ UNCHANGED err
          ELSE /\ Raise("AssertionError")
               /\ UNCHANGED <<table, idx, circles>>
    /\ UNCHANGED <<warnings, version, flags, image_models_kwargs, images, labels,
                   polygons, points, sdata, logger_filters, tmpdirs, tmpdir, lpc,
                   reads, listing, Others>>

LabelNames == {"nucleus_labels", "cell_labels"}

AfterLabels(name) == IF name = "nucleus_labels" THEN "cell_labels" ELSE "nucleus_boundaries"

\* lines 147-148, 156-157 and 308: the flag is tested and _get_labels entered;
\* its with statement creates the temporary directory
GetLabelsEnter ==
    /\ pc \in LabelNames /\ lpc = ""
    /\ IF flags[pc]
       THEN /\ tmpdir' = NewTmpdir(tmpdirs)
            /\ tmpdirs' = tmpdirs \cup {tmpdir'}
            /\ lpc' = "extract"
            /\ invoked' = invoked \cup {pc}
            /\ UNCHANGED pc
       ELSE /\ pc' = AfterLabels(pc)
            /\ UNCHANGED <<tmpdir, tmpdirs, lpc, invoked>>
    /\ UNCHANGED <<err, warnings, specs, version, flags, image_models_kwargs, images,
                   labels, polygons, points, table, circles, sdata, logger_filters,
                   reads, idx, listing, Others>>

\* an exception leaves the with statement of _get_labels, and xenium()
LabelsRaise(e) ==
    /\ tmpdirs' = TemporaryDirectoryExit(tmpdirs, tmpdir, TRUE)
    /\ tmpdir' = 0 /\ lpc' = ""
    /\ Raise(e)
    /\ UNCHANGED labels

\* lines 309-311: the archive is extracted into the temporary directory
GetLabelsExtract ==
    /\ pc \in LabelNames /\ lpc = "extract"
    /\ \/ lpc' = "open" /\ UNCHANGED <<pc, err, tmpdirs, tmpdir, labels>>
       \/ LabelsRaise("BadZipFile")
    /\ UNCHANGED <<warnings, specs, version, flags, image_models_kwargs, images,
                   polygons, points, table, circles, sdata, logger_filters, reads,
                   invoked, idx, listing, Others>>

\* lines 313-314: the store is opened and the mask plane read
GetLabelsOpen ==
    /\ pc \in LabelNames /\ lpc = "open"
    /\ \/ lpc' = "parse" /\ UNCHANGED <<pc, err, tmpdirs, tmpdir, labels>>
       \/ LabelsRaise("KeyError")
    /\ UNCHANGED <<warnings, specs, version, flags, image_models_kwargs, images,
                   polygons, points, table, circles, sdata, logger_filters, reads,
                   invoked, idx, listing, Others>>

\* lines 315-317: Labels2DModel.parse and the return through the with statement
GetLabelsParse ==
    /\ pc \in LabelNames /\ lpc = "parse"
    /\ \/ /\ labels' = Put(labels, pc, [mask_index |-> MaskIndex(pc)])
          /\ tmpdirs' = TemporaryDirectoryExit(tmpdirs, tmpdir, FALSE)
          /\ tmpdir' = 0 /\ lpc' = ""
          /\ pc' = AfterLabels(pc)
          /\ UNCHANGED err
       \/ LabelsRaise("ValueError")
    /\ UNCHANGED <<warnings, specs, version, flags, image_models_kwargs, images,
                   polygons, points, table, circles, sdata, logger_filters, reads,
                   invoked, idx, listing, Others>>

BoundaryNames == {"nucleus_boundaries", "cell_boundaries"}

AfterBoundaries(name) == IF name = "nucleus_boundaries" THEN "cell_boundaries" ELSE "points"

\* lines 166-182: _get_polygons on the boundary file, when its flag is set
GetPolygons ==
    /\ pc \in BoundaryNames
    /\ IF flags[pc]
       THEN /\ invoked' = invoked \cup {pc}
            /\ \E o \in PolygonStatuses :
                  /\ o[1] = specs.analysis_sw_version /\ Series(o[2]) = idx
                  /\ IF o[3] = "ok"
                     THEN /\ polygons' = Put(polygons, pc, "polygons")
                          /\ pc' = AfterBoundaries(pc)
                          /\ UNCHANGED err
                     ELSE Raise(o[3]) /\ UNCHANGED polygons
       ELSE /\ pc' = AfterBoundaries(pc)
            /\ UNCHANGED <<err, polygons, invoked>>
    /\ UNCHANGED <<warnings, specs, version, flags, image_models_kwargs, images, labels,
                   points, table, circles, sdata, logger_filters, tmpdirs, tmpdir, lpc,
                   reads, idx, listing, Others>>

\* lines 184-186
GetPoints ==
    /\ pc = "points"
    /\ IF flags["transcripts"]
       THEN /\ points' = Put(points, "transcripts", "points")
            /\ invoked' = invoked \cup {"transcripts"}
       ELSE UNCHANGED <<points, invoked>>
    /\ pc' = "images"
    /\ UNCHANGED <<err, warnings, specs, version, flags, image_models_kwargs, images,
                   labels, polygons, table, circles, sdata, logger_filters, tmpdirs,
                   tmpdir, lpc, reads, idx, listing, Others>>

\* lines 188-189 and 204: version < packaging.version.parse("2.0.0"); None
\* has no order with a Version, the comparison raises TypeError
ImagesBranch ==
    /\ pc = "images"
    /\ IF version = None THEN Raise("TypeError")
       ELSE IF VersionLess(version, Version200) THEN pc' = "morphology_mip" /\ UNCHANGED err
       ELSE pc' = "focus_dir" /\ UNCHANGED err
    /\ UNCHANGED <<warnings, specs, version, flags, image_models_kwargs, images, labels,
                   polygons, points, table, circles, sdata, logger_filters, tmpdirs,
                   tmpdir, lpc, reads, invoked, idx, listing, Others>>

LegacyImageNames == {"morphology_mip", "morphology_focus"}

AfterLegacyImage(name) == IF name = "morphology_mip" THEN "morphology_focus" ELSE "assemble"

\* lines 190-203: the legacy morphology files, each read by _get_images
GetLegacyImage ==
    /\ pc \in LegacyImageNames
    /\ IF flags[pc]
       THEN /\ invoked' = invoked \cup {pc}
            /\ \/ \E n \in 1..MaxChannels :
                     /\ reads' = Append(reads, ImageRead(pc, pc, n))
                     /\ images' = Put(images, pc, _get_images(n))
                     /\ pc' = AfterLegacyImage(pc)
                     /\ UNCHANGED err
               \/ /\ reads' = Append(reads, ImageRead(pc, pc, 0))
                  /\ Raise("FileNotFoundError") /\ UNCHANGED images
       ELSE /\ pc' = AfterLegacyImage(pc)
            /\ UNCHANGED <<err, images, invoked, reads>>
    /\ UNCHANGED <<warnings, specs, version, flags, image_models_kwargs, labels,
                   polygons, points, table, circles, sdata, logger_filters, tmpdirs,
                   tmpdir, lpc, idx, listing, Others>>

\* lines 205-208: the focus directory is listed and its files checked
FocusListdir ==
    /\ pc = "focus_dir"
    /\ IF flags["morphology_focus"]
       THEN \E entries \in SUBSET FocusDirEntries :
               /\ listing' = FocusFiles(entries)
               /\ IF listing' = FocusChannelFiles
                  THEN pc' = "focus_filter" /\ UNCHANGED err
                  ELSE Raise("AssertionError")
       ELSE pc' = "assemble" /\ UNCHANGED <<err, listing>>
    /\ UNCHANGED <<warnings, specs, version, flags, image_models_kwargs, images, labels,
                   polygons, points, table, circles, sdata, logger_filters, tmpdirs,
                   tmpdir, lpc, reads, invoked, idx, Others>>

\* lines 220-235: a new filter is installed on the logger of tifffile, then
\* c_coords is set unless the caller passed it
FocusAddFilter ==
    /\ pc = "focus_filter"
    /\ logger_filters' = AddFilter(logger_filters, NewFilter(logger_filters))
    /\ IF "c_coords" \in image_models_kwargs
       THEN Raise("AssertionError") /\ UNCHANGED image_models_kwargs
       ELSE /\ image_models_kwargs' = image_models_kwargs \cup {"c_coords"}
            /\ pc' = "focus_read"
            /\ UNCHANGED err
    /\ UNCHANGED <<warnings, specs, version, flags, images, labels, polygons, points,
                   table, circles, sdata, tmpdirs, tmpdir, lpc, reads, invoked, idx,
                   listing, Others>>

\* lines 236-241: _get_images reads the first channel file; the model of the
\* image takes the 5 channel names, one for each channel
FocusRead ==
    /\ pc = "focus_read"
    /\ invoked' = invoked \cup {"morphology_focus"}
    /\ \/ /\ Len(_get_images(FocusChannelsRead).channels) = Len(channel_names)
          /\ reads' = Append(reads, ImageRead("morphology_focus", FocusFile, FocusChannelsRead))
          /\ images' = Put(images, "morphology_focus", _get_images(FocusChannelsRead))
          /\ pc' = "focus_cleanup"
          /\ UNCHANGED err
       \/ /\ Len(_get_images(FocusChannelsRead).channels) # Len(channel_names)
          /\ reads' = Append(reads, ImageRead("morphology_focus", FocusFile, FocusChannelsRead))
          /\ Raise("ValueError") /\ UNCHANGED images
       \/ /\ reads' = Append(reads, ImageRead("morphology_focus", FocusFile, 0))
          /\ Raise("FileNotFoundError") /\ UNCHANGED images
    /\ UNCHANGED <<warnings, specs, version, flags, image_models_kwargs, labels,
                   polygons, points, table, circles, sdata, logger_filters, tmpdirs,
                   tmpdir, lpc, idx, listing, Others>>

\* lines 242-243: c_coords is deleted; removeFilter is given a new instance
\* of IgnoreSpecificMessage
FocusCleanup ==
    /\ pc = "focus_cleanup"
    /\ image_models_kwargs' = image_models_kwargs \ {"c_coords"}
    /\ logger_filters' = RemoveFilter(logger_filters, NewFilter(logger_filters))
    /\ pc' = "assemble"
    /\ UNCHANGED <<err, warnings, specs, version, flags, images, labels, polygons,
                   points, table, circles, sdata, tmpdirs, tmpdir, lpc, reads, invoked,
                   idx, listing, Others>>

\* lines 245-248
Assemble ==
    /\ pc = "assemble"
    /\ sdata' = [images |-> images, labels |-> labels, points |-> points,
                 table |-> table,
                 shapes |-> ShapesOf(polygons, flags["cells_as_circles"], specs.region)]
    /\ pc' = "aligned"
    /\ UNCHANGED <<err, warnings, specs, version, flags, image_models_kwargs, images,
                   labels, polygons, points, table, circles, logger_filters, tmpdirs,
                   tmpdir, lpc, reads, invoked, idx, listing, Others>>

\* lines 250-255: the aligned images are added and sdata returned
AddAlignedImages ==
    /\ pc = "aligned"
    /\ \E r \in AddAlignedResults :
          IF r.status = "ok"
          THEN /\ sdata' = [sdata EXCEPT !.images = Merge(@, r.images)]
               /\ pc' = "done"
               /\ UNCHANGED err
          ELSE Raise(r.status) /\ UNCHANGED sdata
    /\ UNCHANGED <<warnings, specs, version, flags, image_models_kwargs, images, labels,
                   polygons, points, table, circles, logger_filters, tmpdirs, tmpdir,
                   lpc, reads, invoked, idx, listing, Others>>

Next ==
    \/ XeniumCall \/ XeniumExit \/ LoadSpecs \/ GetTablesAndCircles
    \/ GetLabelsEnter \/ GetLabelsExtract \/ GetLabelsOpen \/ GetLabelsParse
    \/ GetPolygons \/ GetPoints \/ ImagesBranch \/ GetLegacyImage
    \/ FocusListdir \/ FocusAddFilter \/ FocusRead \/ FocusCleanup
    \/ Assemble \/ AddAlignedImages

Spec == Init /\ [][Next]_vars

----------------------------------------------------------------------------
(* SpecAligned: one run of _add_aligned_images over a directory.           *)

InitAligned ==
    /\ pc = "glob" /\ err = "" /\ warnings = <<>> /\ version = None /\ out = None
    /\ specs = None /\ df = <<>> /\ idx = None
    /\ Idle
    /\ listing \in SUBSET AlignedDirFiles
    /\ todo = <<>> /\ csv = <<>> /\ pixel_size = None /\ image_shape = <<>>

\* lines 395-397
AlignedGlob ==
    /\ pc = "glob"
    /\ todo' \in Orders(GlobOmeTif(listing))
    /\ pc' = "loop"
    /\ UNCHANGED <<err, warnings, specs, version, xvars, pvars, out, listing, svars, image_shape>>

\* lines 398-415: one iteration of the loop over ome_tif_files
AlignedVisit ==
    /\ pc = "loop" /\ todo # <<>>
    /\ IF ElementName(Head(todo)) = "None"
       THEN /\ todo' = Tail(todo)
            /\ UNCHANGED <<pc, err, images, reads>>
       ELSE \E image \in ImagesRead(AlignmentFileOf(Head(todo), GlobCsv(listing)).alignment_file) :
            LET r == AlignedIter(Head(todo), GlobCsv(listing), images, image)
            IN  /\ reads' = IF r.read THEN Append(reads, Head(todo)) ELSE reads
                /\ images' = r.images
                /\ IF r.status = "ok"
                   THEN todo' = Tail(todo) /\ UNCHANGED <<pc, err>>
                   ELSE pc' = "raised" /\ err' = r.status /\ UNCHANGED todo
    /\ UNCHANGED <<warnings, specs, version, flags, image_models_kwargs, labels,
                   polygons, points, table, circles, sdata, logger_filters,
                   tmpdirs, tmpdir, lpc, invoked, pvars, out, listing, svars, image_shape>>

\* line 416
AlignedReturn ==
    /\ pc = "loop" /\ todo = <<>>
    /\ pc' = "returned" /\ out' = images
    /\ UNCHANGED <<err, warnings, specs, version, xvars, pvars, avars, svars, image_shape>>

NextAligned == AlignedGlob \/ AlignedVisit \/ AlignedReturn

SpecAligned == InitAligned /\ [][NextAligned]_vars

----------------------------------------------------------------------------
(* SpecAlignedImage: one call of xenium_aligned_image.                     *)

InitAlignedImage ==
    /\ pc = "call" /\ err = "" /\ warnings = <<>> /\ version = None /\ out = None
    /\ specs = None /\ df = <<>> /\ idx = None
    /\ Idle
    /\ listing \in SUBSET {File("a_", "he_image", "_alignment.csv")}
    /\ todo = <<File("a_", "he_image", ".ome.tif")>>
    /\ csv = <<>> /\ pixel_size = None
    /\ image_shape \in Shapes

\* lines 441-481, image_path = todo[1], alignment_file the file of listing
CallAlignedImage ==
    /\ pc = "call"
    /\ LET alignment_file == IF listing = {} THEN None ELSE CHOOSE f \in listing : TRUE
           r == xenium_aligned_image(image_shape, alignment_file)
       IN  /\ reads' = Append(reads, todo[1])
           /\ IF r.status = "ok"
              THEN pc' = "returned" /\ out' = r /\ err' = ""
              ELSE pc' = "raised" /\ out' = None /\ err' = r.status
    /\ UNCHANGED <<warnings, specs, version, flags, image_models_kwargs, images, labels,
                   polygons, points, table, circles, sdata, logger_filters,
                   tmpdirs, tmpdir, lpc, invoked, pvars, avars, svars, image_shape>>

NextAlignedImage == CallAlignedImage

SpecAlignedImage == InitAlignedImage /\ [][NextAlignedImage]_vars

----------------------------------------------------------------------------
(* SpecSelection: one call of xenium_explorer_selection.                   *)

InitSelection ==
    /\ pc = "call" /\ err = "" /\ warnings = <<>> /\ version = None /\ out = None
    /\ specs = None /\ df = <<>> /\ idx = None
    /\ Idle
    /\ listing = {} /\ todo = <<>> /\ image_shape = <<>>
    /\ csv \in SelectionFiles
    /\ pixel_size \in PixelSizes

\* lines 504-505
CallSelection ==
    /\ pc = "call"
    /\ LET r == xenium_explorer_selection(csv, pixel_size)
       IN  IF r.status = "ok"
           THEN pc' = "returned" /\ out' = r.vertices /\ err' = ""
           ELSE pc' = "raised" /\ out' = None /\ err' = r.status
    /\ UNCHANGED <<warnings, specs, version, xvars, pvars, avars, svars, image_shape>>

NextSelection == CallSelection

SpecSelection == InitSelection /\ [][NextSelection]_vars

----------------------------------------------------------------------------
(* Claims about _get_polygons, checked under SpecPolygons.                 *)

IdsOf(ix) == [i \in 1..Len(ix.values) |-> ix.values[i].v]

\* C2 (as claimed): in the legacy regime _get_polygons succeeds exactly when
\* the cell identifiers of the boundary table, in the order of its boundaries,
\* equal the supplied identifier list element for element (stated for the
\* tables that hold at least one boundary).
C2_TableOrderDecides ==
    (pc # "call" /\ IsLegacy(version) /\ Len(df) > 0) =>
        ((pc = "returned") <=> (idx # None /\ BoundaryIds(df) = IdsOf(idx)))

\* C2 (amended): in the legacy regime _get_polygons succeeds exactly when the
\* table is not empty and its distinct cell identifiers in sorted order (the
\* grouped keys) equal the supplied identifier list element for element; the
\* polygons returned are then indexed by that list. The order of the
\* boundaries in the table plays no part.
C2_SortedKeysDecide ==
    (pc # "call" /\ IsLegacy(version)) =>
        /\ (pc = "returned") <=>
              /\ idx # None
              /\ Len(df) > 0
              /\ IdsOf(idx) = SortedSeq(Range(BoundaryIds(df)))
        /\ pc = "returned" => (out.index = idx.values /\ Len(out.geometry) = Len(idx.values))
        /\ pc = "raised" => err \in {"AssertionError", "IndexError"}

\* a legacy call that returned although the table lists its boundaries in
\* another order than the identifier list
C2_Witness ==
    /\ pc = "returned" /\ IsLegacy(version)
    /\ Len(idx.values) = 2
    /\ BoundaryIds(df) # IdsOf(idx)

\* C7 (as claimed): in the modern regime (or with an unknown version)
\* _get_polygons raises no assertion, warns about non-unique indices whenever
\* a cell identifier is on more than one boundary of the table (and still
\* returns), and does not warn when there is none.
C7_DuplicatesWarn ==
    (pc # "call" /\ ~IsLegacy(version)) =>
        /\ err # "AssertionError"
        /\ HasDuplicateIds(df) => (pc = "returned" /\ WarningNonUnique \in Range(warnings))
        /\ ~HasDuplicateIds(df) => WarningNonUnique \notin Range(warnings)

----------------------------------------------------------------------------
(* Claims about xenium_explorer_selection, checked under SpecSelection.    *)

\* the vertices are the rows, in order, each divided by pixel_size
IsScaled(vertices, rows, p) ==
    /\ Len(vertices) = Len(rows)
    /\ \A i \in 1..Len(rows) :
          /\ vertices[i].x.n * p.num = rows[i].x * p.den * vertices[i].x.d
          /\ vertices[i].y.n * p.num = rows[i].y * p.den * vertices[i].y.d

AllRows(lines) == \A i \in 1..Len(lines) : lines[i].kind = "row"

\* C8 (as claimed): for an export of two header rows followed by N coordinate
\* rows (N >= 3, so that they make a ring) the polygon returned has exactly
\* those N rows as vertices, in order, each divided by pixel_size.
C8_TwoHeaderRows ==
    (pc # "call" /\ AllRows(Drop(csv, 2)) /\ Len(csv) >= 5) =>
        (pc = "returned" /\ IsScaled(out, Drop(csv, 2), pixel_size))

\* C8 (amended): the two skipped rows are followed by one more row that
\* read_csv consumes as the column names, whatever it holds; for an export
\* whose rows after the third are N >= 3 coordinate rows the polygon returned
\* has exactly those N rows as vertices, in order, each divided by
\* pixel_size. A coordinate row that directly follows the two skipped rows
\* is not a vertex.
C8_ThirdRowIsColumnNames ==
    (pc # "call" /\ Len(csv) >= 6) =>
        (pc = "returned" /\ IsScaled(out, Drop(csv, 3), pixel_size))

\* an export without a column-name row was read: its first coordinate row
\* is lost, the three rows after it are the vertices
C8_Witness ==
    /\ pc = "returned" /\ Len(csv) = 6 /\ AllRows(Drop(csv, 2))
    /\ Len(out) = 3 /\ pixel_size = [num |-> 1, den |-> 2]

----------------------------------------------------------------------------
(* Claims about xenium_aligned_image, checked under SpecAlignedImage.      *)

\* C9: xenium_aligned_image turns (1, H, W, 3) into (H, W, 3) with dims
\* (y, x, c), keeps (3, H, W) as (c, y, x), appends one zero channel to
\* (4, H, W), and raises for every other shape, returning no element.
C9_ShapeNormalization ==
    pc # "call" =>
        LET s == image_shape
        IN  CASE Len(s) = 4 /\ s[1] = 1 /\ s[4] = 3 ->
                    /\ pc = "returned"
                    /\ out.shape = <<s[2], s[3], 3>> /\ out.dims = <<"y", "x", "c">>
                    /\ ~out.zero
              [] Len(s) = 3 /\ s[1] = 3 ->
                    /\ pc = "returned"
                    /\ out.shape = s /\ out.dims = <<"c", "y", "x">> /\ ~out.zero
              [] Len(s) = 3 /\ s[1] = 4 ->
                    /\ pc = "returned"
                    /\ out.shape = <<5, s[2], s[3]>> /\ out.dims = <<"c", "y", "x">>
                    /\ out.zero
              [] OTHER -> pc = "raised" /\ err = "AssertionError" /\ out = None

\* a 4-channel image came back with the zero channel appended
C9_Witness ==
    /\ pc = "returned" /\ Len(image_shape) = 3 /\ image_shape[1] = 4
    /\ out.shape[1] = 5 /\ out.transformation = "Affine"

----------------------------------------------------------------------------
(* Claims about xenium(), checked under Spec.                              *)

Modern == version # None /\ ~VersionLess(version, Version200)

Legacy == version # None /\ VersionLess(version, Version200)

\* C1 (as claimed): an unparsable version string gives the sentinel None and
\* xenium() does not abort because of it: no version branch raises on None.
C1_UnknownVersionCompletes ==
    ~(pc = "error" /\ version = None /\ err.type = "TypeError")

\* C3 (as claimed): once xenium() is past the read of the focus image, by a
\* normal return or by an exception of the read, the logger of tifffile has
\* the filters it had before the call: none.
C3_FilterRemoved ==
    (\/ pc \in {"assemble", "aligned", "done"}
     \/ pc = "error" /\ err.at = "focus_read") => logger_filters = <<>>

\* C4: whenever control is outside _get_labels, on every path out of it, no
\* temporary directory that a call of _get_labels created is left.
C4_TmpdirRemoved ==
    /\ lpc = "" => tmpdirs = {}
    /\ lpc # "" => tmpdirs = {tmpdir}

\* _get_labels failed in the label-model builder after an earlier call of
\* it had returned, and no directory is left
C4_Witness ==
    /\ pc = "error" /\ err = [type |-> "ValueError", at |-> "cell_labels"]
    /\ "nucleus_labels" \in DOMAIN labels
    /\ tmpdirs = {}

FiveChannels == Data(4) \o <<"zero">>

\* C6 (as claimed): in the modern regime with morphology_focus requested the
\* focus step builds the image with 5 channels, the last one zero and named
\* "dummy", when the .ome.tif files of the focus directory are exactly the 4
\* channel files, and raises an assertion before any image file is read for
\* every other set of files.
C6_ExactFilesDecide ==
    Modern =>
        /\ (pc = "error" /\ err.at \in {"focus_dir", "focus_filter"}) =>
              (err.type = "AssertionError" /\ listing # FocusChannelFiles /\ reads = <<>>)
        /\ pc \in {"focus_filter", "focus_read", "focus_cleanup"} =>
              listing = FocusChannelFiles
        \* the 5 channel names fit the channels read: the builder does not reject them
        /\ (pc = "error" /\ err.at = "focus_read") => err.type = "FileNotFoundError"
        /\ "morphology_focus" \in DOMAIN images =>
              /\ listing = FocusChannelFiles
              /\ images["morphology_focus"].channels = FiveChannels
              /\ channel_names[Len(FiveChannels)] = "dummy"

\* C6 (amended): as claimed when the caller's image_models_kwargs has no
\* c_coords key; when it has one and the files are exactly the 4 channel
\* files, the step raises an assertion as well, before any image file is
\* read.
C6_ExactFilesAndNoCCoords ==
    Modern =>
        /\ (pc = "error" /\ err.at = "focus_dir") =>
              (err.type = "AssertionError" /\ listing # FocusChannelFiles /\ reads = <<>>)
        /\ (pc = "error" /\ err.at = "focus_filter") =>
              /\ err.type = "AssertionError" /\ reads = <<>>
              /\ listing = FocusChannelFiles /\ "c_coords" \in image_models_kwargs
        /\ pc \in {"focus_filter", "focus_read", "focus_cleanup"} =>
              listing = FocusChannelFiles
        \* the 5 channel names fit the channels read: the builder does not reject them
        /\ (pc = "error" /\ err.at = "focus_read") => err.type = "FileNotFoundError"
        /\ pc = "focus_read" => reads = <<>>
        /\ "morphology_focus" \in DOMAIN images =>
              /\ listing = FocusChannelFiles
              /\ images["morphology_focus"].channels = FiveChannels
              /\ channel_names[Len(FiveChannels)] = "dummy"
        /\ (pc \in {"assemble", "aligned", "done"} /\ flags["morphology_focus"]) =>
              ("morphology_focus" \in DOMAIN images /\ "c_coords" \notin image_models_kwargs)

\* the focus image of a modern dataset was built, with its 5 channels
C6_Witness ==
    /\ Modern /\ pc = "done"
    /\ listing = FocusChannelFiles
    /\ sdata.images["morphology_focus"].channels = FiveChannels

\* the element of the scene graph that a flag stands for is present
HasElement(sd, flag) ==
    CASE flag = "cells_as_circles" -> "cell_circles" \in DOMAIN sd.shapes
      [] flag \in {"cell_boundaries", "nucleus_boundaries"} -> flag \in DOMAIN sd.shapes
      [] flag \in {"cell_labels", "nucleus_labels"} -> flag \in DOMAIN sd.labels
      [] flag = "transcripts" -> flag \in DOMAIN sd.points
      [] flag \in {"morphology_mip", "morphology_focus"} -> flag \in DOMAIN sd.images

\* no extractor has been called for an element whose flag is false
OnlyFlaggedInvoked ==
    /\ \A f \in invoked \cap FlagNames : flags[f]
    /\ circles => flags["cells_as_circles"]

\* C10 (as claimed): in both regimes a returned scene graph holds the element
\* of a flag if and only if the flag is true, and no extractor is called for
\* an element whose flag is false.
C10_FlagsDecideElements ==
    /\ pc = "done" => \A f \in FlagNames : HasElement(sdata, f) <=> flags[f]
    /\ pc \notin {"idle", "load_specs"} => OnlyFlaggedInvoked

\* C10 (amended): as claimed for every flag but morphology_mip; the
\* morphology_mip image is in the returned scene graph if and only if its
\* flag is true and the version is below 2.0.0: for a modern dataset the
\* flag has no effect.
C10_FlagsDecideElementsButMip ==
    /\ pc = "done" =>
          /\ \A f \in FlagNames \ {"morphology_mip"} : HasElement(sdata, f) <=> flags[f]
          /\ HasElement(sdata, "morphology_mip") <=> (flags["morphology_mip"] /\ Legacy)
    /\ pc \notin {"idle", "load_specs"} =>
          /\ OnlyFlaggedInvoked
          /\ "morphology_mip" \in invoked => Legacy

\* a modern dataset was read with morphology_mip requested: the scene graph
\* has the focus image and no mip image
C10_Witness ==
    /\ pc = "done" /\ Modern
    /\ flags["morphology_mip"] /\ flags["morphology_focus"] /\ ~flags["cells_as_circles"]
    /\ ~HasElement(sdata, "morphology_mip") /\ HasElement(sdata, "morphology_focus")

\* C11 (as claimed): in every scene graph xenium() returns, the region the
\* table's cells are tagged with names a shapes element of that scene graph.
C11_RegionIsPresent ==
    pc = "done" => sdata.table \in DOMAIN sdata.shapes

\* the last read of imread for an element
LastRead(element) ==
    LET S == {i \in 1..Len(reads) : reads[i].element = element}
    IN  reads[CHOOSE i \in S : \A j \in S : j <= i]

\* C12: every morphology image _get_images has produced, in the legacy and in
\* the modern regime, has the channels of the array read from its file
\* followed by one more channel, which is all zeros.
C12_ZeroChannelAppended ==
    \A name \in DOMAIN images :
        /\ \E i \in 1..Len(reads) : reads[i].element = name
        /\ LastRead(name).channels >= 1
        /\ images[name].channels = Data(LastRead(name).channels) \o <<"zero">>
        /\ Len(images[name].channels) = LastRead(name).channels + 1

\* a legacy dataset whose mip file holds 2 channels and whose focus file
\* holds 1 was read: the images have 3 and 2 channels, the last one zero
C12_Witness ==
    /\ pc = "done" /\ Legacy
    /\ LegacyImageNames \subseteq DOMAIN sdata.images
    /\ sdata.images["morphology_mip"].channels = <<"data", "data", "zero">>
    /\ sdata.images["morphology_focus"].channels = <<"data", "zero">>
    /\ LastRead("morphology_mip").channels = 2

====
